---- MODULE Spec2Model ----
(***************************************************************************)
(* Availability engine of the calendar assistant (src/server.js, the       *)
(* second, complete server in that file): computeAvailability, its         *)
(* helpers, the busy-interval provider freeBusy, and the two callers       *)
(* GET /availability and POST /vonage/input.                                *)
(*                                                                         *)
(* Time is counted in whole minutes since the Unix epoch; a JavaScript     *)
(* Date is its time value in minutes, and an Invalid Date is NaN.          *)
(* toISOString / new Date(iso) are exact at this resolution, so an ISO     *)
(* string is represented by the instant it denotes.                        *)
(***************************************************************************)
EXTENDS Integers, Sequences, FiniteSets, TLC

VARIABLES
    RULES,      \* the process-wide scheduling rules object
    env,        \* process environment read by the handlers
    clock,      \* the wall clock, what new Date() returns
    pc,         \* per request: "idle", "awaiting" (at await freeBusy), "done"
    call,       \* per request: the arguments and locals of the handler
    fetches,    \* per request: number of calendar.freebusy.query calls made
    ret,        \* per request: outcome of computeAvailability
    resp,       \* per request: the HTTP response sent
    busyGot     \* per request: the busy list freeBusy returned

vars == <<RULES, env, clock, pc, call, fetches, ret, resp, busyGot>>

\* ------------------------------------------------------------------ bounds

\* Longest busy list the provider returns in the model.
MaxBusy == 2

\* ------------------------------------------------------------ time basics

MinutesPerHour == 60
MinutesPerDay == 24 * MinutesPerHour

\* Time value of an Invalid Date.
NaN == 0 - 1

\* The instant h:m UTC on epoch day d.
Instant(d, h, m) == d * MinutesPerDay + h * MinutesPerHour + m

\* Epoch days the model knows by name: 2025-08-07 (Thu) .. 2025-08-12 (Tue).
KnownDays == 20307 .. 20312

DayString(d) ==
    CASE d = 20307 -> "2025-08-07"
      [] d = 20308 -> "2025-08-08"
      [] d = 20309 -> "2025-08-09"
      [] d = 20310 -> "2025-08-10"
      [] d = 20311 -> "2025-08-11"
      [] d = 20312 -> "2025-08-12"
      [] OTHER -> "out-of-range"

\* new Date(s) for a date-only string: UTC midnight of that day, or Invalid Date.
JsDateParse(s) ==
    IF \E d \in KnownDays : DayString(d) = s
    THEN Instant(CHOOSE d \in KnownDays : DayString(d) = s, 0, 0)
    ELSE NaN

\* UTC offset, in minutes, of an IANA zone during the modelled week.
TzOffset(tz) ==
    CASE tz = "America/Chicago" -> 0 - 300
      [] tz = "UTC" -> 0
      [] tz = "Asia/Tokyo" -> 540

\* Wall-clock minutes (since the epoch, as if UTC) shown by the local fields of
\* Date t in the zone the server process runs in.
LocalFields(t) == t + TzOffset(env.TZ)

\* Date.prototype.getDay on local fields w: 0 = Sunday .. 6 = Saturday.
GetDay(w) == ((w \div MinutesPerDay) + 4) % 7

\* Date.prototype.getHours on local fields w.
GetHours(w) == (w % MinutesPerDay) \div MinutesPerHour

\* date-fns setHours(t, h) after the minutes and seconds were zeroed: same local
\* calendar day of the server's zone, at h:00.
SetHours(t, h) ==
    (LocalFields(t) \div MinutesPerDay) * MinutesPerDay + h * MinutesPerHour
        - TzOffset(env.TZ)

\* date-fns addMinutes.
AddMinutes(t, n) == t + n

\* date-fns-tz zonedTimeToUtc(t, tz): the local fields of t read as wall clock in tz.
ZonedTimeToUtc(t, tz) == LocalFields(t) - TzOffset(tz)

\* date-fns-tz utcToZonedTime(t, tz): a Date whose local fields show tz's wall clock.
UtcToZonedTime(t, tz) == t + TzOffset(tz) - TzOffset(env.TZ)

\* -------------------------------------------------- scheduling rules, env

\* RULES as built at process start from an environment that sets nothing.
DefaultRules ==
    [ WORK_DAYS         |-> {1, 2, 3, 4, 5},
      WORK_START_HOUR   |-> 9,
      WORK_END_HOUR     |-> 17,
      SLOT_INTERVAL_MIN |-> 30,
      BUFFER_MIN        |-> 10,
      MIN_NOTICE_MIN    |-> 120 ]

\* The rule objects the modelled deployments start with: the defaults, and the
\* defaults with BUFFER_MIN=0 in the environment.
RuleSets ==
    { DefaultRules,
      [DefaultRules EXCEPT !.BUFFER_MIN = 0],
      [DefaultRules EXCEPT !.SLOT_INTERVAL_MIN = 45] }

TZ_DEFAULT == "America/Chicago"

\* Zones a request names in ?tz= (absent: TZ_DEFAULT).
TimeZones == { TZ_DEFAULT, "UTC" }

\* Zones the server process itself runs in.
SysZones == { "America/Chicago", "UTC" }

\* Values new Date() returns in the model: 2025-08-08 00:00Z, and on 2025-08-11
\* 12:00Z, 12:30Z and 19:50Z (07:00, 07:30 and 14:50 in Chicago).
ClockValues ==
    { Instant(20308, 0, 0), Instant(20311, 12, 0),
      Instant(20311, 12, 30), Instant(20311, 19, 50) }

\* ------------------------------------------------------- the availability scan

\* withinWorkHours without the work-day test.
withinWorkHoursAnyDay(date, tz) ==
    LET local == LocalFields(UtcToZonedTime(date, tz))
        h == GetHours(local)
    IN  h >= RULES.WORK_START_HOUR /\ h < RULES.WORK_END_HOUR

\* withinWorkHours(date, tz)
withinWorkHours(date, tz) ==
    LET local == LocalFields(UtcToZonedTime(date, tz)) IN
    IF GetDay(local) \notin RULES.WORK_DAYS THEN FALSE
    ELSE LET h == GetHours(local) IN
         h >= RULES.WORK_START_HOUR /\ h < RULES.WORK_END_HOUR

\* WorkWindow going on with an Invalid Date instead of throwing.
WorkWindowNoThrow(date, tz) ==
    LET parsed == JsDateParse(date)
        dayStartLocal  == SetHours(parsed, 0)
        workStartLocal == SetHours(dayStartLocal, RULES.WORK_START_HOUR)
        workEndLocal   == SetHours(dayStartLocal, RULES.WORK_END_HOUR)
    IN  [threw   |-> FALSE,
         timeMin |-> ZonedTimeToUtc(workStartLocal, tz),
         timeMax |-> ZonedTimeToUtc(workEndLocal, tz)]

\* The head of computeAvailability: the work window of `date` in tz, as the two
\* instants sent to the provider and scanned. toISOString throws a RangeError
\* on an Invalid Date.
WorkWindow(date, tz) ==
    LET parsed == JsDateParse(date) IN
    IF parsed = NaN
    THEN [threw |-> TRUE, timeMin |-> NaN, timeMax |-> NaN]
    ELSE LET dayStartLocal  == SetHours(parsed, 0)
             workStartLocal == SetHours(dayStartLocal, RULES.WORK_START_HOUR)
             workEndLocal   == SetHours(dayStartLocal, RULES.WORK_END_HOUR)
         IN  [threw   |-> FALSE,
              timeMin |-> ZonedTimeToUtc(workStartLocal, tz),
              timeMax |-> ZonedTimeToUtc(workEndLocal, tz)]

\* PastWorkEnd with the comparison made inclusive.
PastWorkEndInclusive(slotEnd, endUtc) == slotEnd >= endUtc

\* "Must finish within work hours": the break of the scan loop.
PastWorkEnd(slotEnd, endUtc) == slotEnd > endUtc

\* TooSoon skipping the positions beyond the notice instead of those before it.
TooSoonReversed(nowUtc, cursorUtc) ==
    AddMinutes(nowUtc, RULES.MIN_NOTICE_MIN) < cursorUtc

\* TooSoon with the comparison made inclusive.
TooSoonInclusive(nowUtc, cursorUtc) ==
    AddMinutes(nowUtc, RULES.MIN_NOTICE_MIN) >= cursorUtc

\* "Respect min notice": the skip of the scan loop.
TooSoon(nowUtc, cursorUtc) == AddMinutes(nowUtc, RULES.MIN_NOTICE_MIN) > cursorUtc

\* Overlaps counting an interval that only touches the padded slot.
OverlapsTouching(busy, slotStartBuf, slotEndBuf) ==
    \E n \in 1 .. Len(busy) :
        (slotStartBuf <= busy[n].end) /\ (slotEndBuf >= busy[n].start)

\* Overlaps looking at the first busy interval only.
OverlapsFirstOnly(busy, slotStartBuf, slotEndBuf) ==
    /\ Len(busy) > 0
    /\ (slotStartBuf < busy[1].end) /\ (slotEndBuf > busy[1].start)

\* busy.some(b => slotStartBuf < bEnd && slotEndBuf > bStart)
Overlaps(busy, slotStartBuf, slotEndBuf) ==
    \E n \in 1 .. Len(busy) :
        (slotStartBuf < busy[n].end) /\ (slotEndBuf > busy[n].start)

\* NextCursor advancing by half the slot interval.
NextCursorHalf(cursorUtc) ==
    AddMinutes(cursorUtc, RULES.SLOT_INTERVAL_MIN \div 2)

\* NextCursor stepping over the buffer as well.
NextCursorPadded(cursorUtc) ==
    AddMinutes(cursorUtc, RULES.SLOT_INTERVAL_MIN + RULES.BUFFER_MIN)

\* The cursor of the next loop iteration.
NextCursor(cursorUtc) == AddMinutes(cursorUtc, RULES.SLOT_INTERVAL_MIN)

\* Whether the loop body, past the notice check, pushes cursorUtc.
Bookable(cursorUtc, slotEnd, busy, tz) ==
    LET slotStartBuf == AddMinutes(cursorUtc, 0 - RULES.BUFFER_MIN)
        slotEndBuf   == AddMinutes(slotEnd, RULES.BUFFER_MIN)
    IN  ~Overlaps(busy, slotStartBuf, slotEndBuf) /\ withinWorkHours(cursorUtc, tz)

\* ScanLoop leaving the loop at the first position the notice check rejects.
RECURSIVE ScanLoopStopsAtNotice(_, _, _, _, _, _, _, _)
ScanLoopStopsAtNotice(cursorUtc, endUtc, durationMin, nowUtc, busy, tz, starts, iters) ==
    IF ~(cursorUtc < endUtc)
    THEN [starts |-> starts, iters |-> iters]
    ELSE LET slotEnd == AddMinutes(cursorUtc, durationMin) IN
         IF PastWorkEnd(slotEnd, endUtc) \/ TooSoon(nowUtc, cursorUtc)
         THEN [starts |-> starts, iters |-> iters + 1]
         ELSE ScanLoopStopsAtNotice(NextCursor(cursorUtc), endUtc, durationMin,
                       nowUtc, busy, tz,
                       IF Bookable(cursorUtc, slotEnd, busy, tz)
                       THEN Append(starts, cursorUtc) ELSE starts,
                       iters + 1)

\* The while loop of computeAvailability from cursorUtc on, with `starts` pushed
\* so far and `iters` loop bodies entered so far.
RECURSIVE ScanLoop(_, _, _, _, _, _, _, _)
ScanLoop(cursorUtc, endUtc, durationMin, nowUtc, busy, tz, starts, iters) ==
    IF ~(cursorUtc < endUtc)
    THEN [starts |-> starts, iters |-> iters]
    ELSE LET slotEnd == AddMinutes(cursorUtc, durationMin) IN
         IF PastWorkEnd(slotEnd, endUtc)
         THEN [starts |-> starts, iters |-> iters + 1]
         ELSE IF TooSoon(nowUtc, cursorUtc)
         THEN ScanLoop(NextCursor(cursorUtc), endUtc, durationMin, nowUtc, busy,
                       tz, starts, iters + 1)
         ELSE ScanLoop(NextCursor(cursorUtc), endUtc, durationMin, nowUtc, busy,
                       tz,
                       IF Bookable(cursorUtc, slotEnd, busy, tz)
                       THEN Append(starts, cursorUtc) ELSE starts,
                       iters + 1)

\* The tail of computeAvailability, after await freeBusy returned `busy`.
ScanSlots(timeMin, timeMax, durationMin, nowUtc, busy, tz) ==
    ScanLoop(timeMin, timeMax, durationMin, nowUtc, busy, tz, <<>>, 0)

\* ------------------------------------------------------------ normalizeRange

\* ?start= and ?end= of GET /freebusy: absent, two dates, two absolute
\* timestamps, or text that is neither.
RangeInputs ==
    { "", "2025-08-09", "2025-08-11",
      "2025-08-11T14:00:00Z", "2025-08-11T15:00:00Z", "tomorrow" }

\* isDateOnly(s): /^\d{4}-\d{2}-\d{2}$/ on the strings of the model.
isDateOnly(s) == \E d \in KnownDays : DayString(d) = s

\* new Date(`${s}T00:00:00`) and new Date(`${s}T23:59:59.999`): a date-time
\* with no offset is read in the zone of the server process. Instants are
\* whole minutes, so the last instant of the day is its minute 23:59.
JsLocalDateTime(s, h, m) == Instant(JsDateParse(s) \div MinutesPerDay, h, m) - TzOffset(env.TZ)

\* parseISO(s): a date alone is midnight in the zone of the server process, a
\* timestamp with Z is that instant, anything else is Invalid Date.
parseISO(s) ==
    CASE isDateOnly(s) -> JsLocalDateTime(s, 0, 0)
      [] s = "2025-08-11T14:00:00Z" -> Instant(20311, 14, 0)
      [] s = "2025-08-11T15:00:00Z" -> Instant(20311, 15, 0)
      [] OTHER -> NaN

\* isValid(date)
isValid(t) == t # NaN

\* normalizeRange({ start, end, tz }): the window, or the error thrown.
normalizeRange(start, end, tz) ==
    IF start = "" \/ end = ""
    THEN [threw |-> TRUE, error |-> "Query params \"start\" and \"end\" are required",
          timeMin |-> NaN, timeMax |-> NaN]
    ELSE IF isDateOnly(start) /\ isDateOnly(end)
    THEN [threw |-> FALSE, error |-> "",
          timeMin |-> ZonedTimeToUtc(JsLocalDateTime(start, 0, 0), tz),
          timeMax |-> ZonedTimeToUtc(JsLocalDateTime(end, 23, 59), tz)]
    ELSE LET s == parseISO(start)
             e == parseISO(end)
         IN  IF ~isValid(s) \/ ~isValid(e)
             THEN [threw |-> TRUE,
                   error |-> "Invalid start/end; use YYYY-MM-DD or ISO datetime",
                   timeMin |-> NaN, timeMax |-> NaN]
             ELSE [threw |-> FALSE, error |-> "", timeMin |-> s, timeMax |-> e]

\* ------------------------------------------------------------ the requests

\* The requests in flight the model tracks.
Inv == { 1 }

\* ?date= of GET /availability: absent, a Saturday, a Monday, or no date at all.
QueryDates == { "", "2025-08-09", "2025-08-11", "not-a-date" }

\* ?duration= of GET /availability (absent: '30').
QueryDurations == { "", "30", "60", "0", "-30" }

\* parseInt(s, 10) on the duration strings of the model.
ParseInt(s) ==
    CASE s = "30" -> 30
      [] s = "60" -> 60
      [] s = "0" -> 0
      [] s = "-30" -> 0 - 30

\* What the caller said to the voice menu, by the branch of the intent routing
\* it takes ("" matches none).
Utterances == { "help", "list", "book", "" }

\* The busy intervals the calendar may report for a query starting at timeMin:
\* 10:00-10:30, 09:00-09:20 and 10:10-11:21 of the queried work day.
BusyPool(timeMin) ==
    { [start |-> timeMin + 60, end |-> timeMin + 90],
      [start |-> timeMin,      end |-> timeMin + 20],
      [start |-> timeMin + 70, end |-> timeMin + 141] }

\* data.calendars[CAL_ID].busy: any list over the pool, in any order, [] included.
BusyLists(timeMin) ==
    UNION { [1 .. n -> BusyPool(timeMin)] : n \in 0 .. MaxBusy }

\* The shortest answers: nothing, or one interval.
ConcBusyLists(timeMin) == { <<>> } \cup { <<b>> : b \in BusyPool(timeMin) }

\* The arguments a handler works with (start and end are the ?start= and ?end=
\* of GET /freebusy), and the window the handler built from them.
Args(caller, keyOk, tz, date, durationMin, utter) ==
    [caller |-> caller, keyOk |-> keyOk, tz |-> tz, date |-> date,
     durationMin |-> durationMin, utter |-> utter,
     start |-> "", end |-> "", timeMin |-> NaN, timeMax |-> NaN]

NoCall == Args("none", FALSE, "", "", 0, "")

NoReturn == [kind |-> "none", starts |-> <<>>, error |-> "", now |-> NaN, iters |-> 0]

NoResponse == [status |-> 0, body |-> "", slots |-> <<>>]

\* The first n elements of s: Array.prototype.slice(0, n).
Slice(s, n) == SubSeq(s, 1, IF Len(s) < n THEN Len(s) ELSE n)

\* Respond with both catch blocks answering as for an empty slot list.
RespondFailureAsEmpty(caller, r) ==
    IF caller = "http"
    THEN [status |-> 200, body |-> "slots",
          slots |-> IF r.kind = "threw" THEN <<>> ELSE r.starts]
    ELSE LET firstFew == IF r.kind = "threw" THEN <<>> ELSE Slice(r.starts, 5) IN
         IF Len(firstFew) = 0
         THEN [status |-> 200, body |-> "No openings left today.", slots |-> <<>>]
         ELSE [status |-> 200, body |-> "Here are some times", slots |-> firstFew]

\* What each caller sends once computeAvailability has settled with outcome r:
\* the res.json(slots) / catch of GET /availability, and the text spoken by
\* POST /vonage/input.
Respond(caller, r) ==
    IF caller = "http"
    THEN IF r.kind = "threw"
         THEN [status |-> 400, body |-> r.error, slots |-> <<>>]
         ELSE [status |-> 200, body |-> "slots", slots |-> r.starts]
    ELSE IF r.kind = "threw"
         THEN [status |-> 200, body |-> "I hit a snag checking availability.",
               slots |-> <<>>]
         ELSE LET firstFew == Slice(r.starts, 5) IN
              IF Len(firstFew) = 0
              THEN [status |-> 200, body |-> "No openings left today.",
                    slots |-> <<>>]
              ELSE [status |-> 200, body |-> "Here are some times",
                    slots |-> firstFew]

\* computeAvailability({date, durationMin, tz}) up to its await: the window is
\* built (an Invalid Date throws), then freeBusy is called once.
ComputeAvailability(i, a) ==
    LET w == WorkWindow(a.date, a.tz) IN
    IF w.threw
    THEN LET r == [NoReturn EXCEPT !.kind = "threw", !.error = "Invalid time value"]
         IN  /\ ret' = [ret EXCEPT ![i] = r]
             /\ resp' = [resp EXCEPT ![i] = Respond(a.caller, r)]
             /\ pc' = [pc EXCEPT ![i] = "done"]
             /\ call' = [call EXCEPT ![i] = a]
             /\ UNCHANGED <<fetches, busyGot>>
    ELSE /\ call' = [call EXCEPT ![i] =
                [a EXCEPT !.timeMin = w.timeMin, !.timeMax = w.timeMax]]
         /\ fetches' = [fetches EXCEPT ![i] = @ + 1]
         /\ pc' = [pc EXCEPT ![i] = "awaiting"]
         /\ UNCHANGED <<ret, resp, busyGot>>

\* A request ends at once with this response, computeAvailability not called.
Reply(i, a, status, body) ==
    /\ resp' = [resp EXCEPT ![i] = [status |-> status, body |-> body, slots |-> <<>>]]
    /\ pc' = [pc EXCEPT ![i] = "done"]
    /\ call' = [call EXCEPT ![i] = a]
    /\ UNCHANGED <<ret, fetches, busyGot>>

\* GET /availability, behind app.use(requireApiKey).
GetAvailability(i) ==
    /\ pc[i] = "idle"
    /\ \E keyOk \in BOOLEAN, tz \in TimeZones, date \in QueryDates,
          duration \in QueryDurations :
          LET durationMin == ParseInt(IF duration = "" THEN "30" ELSE duration)
              a == Args("http", keyOk, tz, date, durationMin, "")
          IN  IF ~keyOk
              THEN Reply(i, a, 401, "Unauthorized")
              ELSE IF date = ""
              THEN Reply(i, a, 400, "date (YYYY-MM-DD) required")
              ELSE ComputeAvailability(i, a)
    /\ UNCHANGED <<RULES, env, clock>>

\* GET /freebusy, behind app.use(requireApiKey): the range is normalized, then
\* freeBusy is called once; a throw of normalizeRange is answered with 400.
GetFreeBusy(i) ==
    /\ pc[i] = "idle"
    /\ \E keyOk \in BOOLEAN, tz \in TimeZones, start \in RangeInputs,
          end \in RangeInputs :
          LET a == [Args("freebusy", keyOk, tz, "", 0, "")
                        EXCEPT !.start = start, !.end = end]
              w == normalizeRange(start, end, tz)
          IN  IF ~keyOk
              THEN Reply(i, a, 401, "Unauthorized")
              ELSE IF w.threw
              THEN Reply(i, a, 400, w.error)
              ELSE /\ call' = [call EXCEPT ![i] =
                          [a EXCEPT !.timeMin = w.timeMin, !.timeMax = w.timeMax]]
                   /\ fetches' = [fetches EXCEPT ![i] = @ + 1]
                   /\ pc' = [pc EXCEPT ![i] = "awaiting"]
                   /\ UNCHANGED <<ret, resp, busyGot>>
    /\ UNCHANGED <<RULES, env, clock>>

\* calendar.freebusy.query resolves for GET /freebusy: res.json with the window
\* and the busy list.
FreeBusyResponds(i) ==
    /\ pc[i] = "awaiting" /\ call[i].caller = "freebusy"
    /\ \E busy \in ConcBusyLists(call[i].timeMin) :
          /\ busyGot' = [busyGot EXCEPT ![i] = busy]
          /\ resp' = [resp EXCEPT ![i] = [status |-> 200, body |-> "busy", slots |-> <<>>]]
    /\ pc' = [pc EXCEPT ![i] = "done"]
    /\ UNCHANGED <<RULES, env, clock, call, fetches, ret>>

\* calendar.freebusy.query rejects for GET /freebusy: the catch answers 400.
FreeBusyFails(i) ==
    /\ pc[i] = "awaiting" /\ call[i].caller = "freebusy"
    /\ resp' = [resp EXCEPT ![i] = [status |-> 400, body |-> "provider error", slots |-> <<>>]]
    /\ pc' = [pc EXCEPT ![i] = "done"]
    /\ UNCHANGED <<RULES, env, clock, call, fetches, ret, busyGot>>

\* verifyVonageSignature(req)
verifyVonageSignature == ~env.VONAGE_SIGNATURE_SECRET

\* GET /vonage/answer, registered after app.use(requireApiKey): the NCCO with
\* the spoken menu.
VonageAnswer(i) ==
    /\ pc[i] = "idle"
    /\ \E keyOk \in BOOLEAN :
          LET a == Args("vonage-answer", keyOk, TZ_DEFAULT, "", 0, "") IN
          IF ~keyOk
          THEN Reply(i, a, 401, "Unauthorized")
          ELSE IF ~verifyVonageSignature
          THEN Reply(i, a, 401, "")
          ELSE Reply(i, a, 200, "Hi, this is Eric's assistant.")
    /\ UNCHANGED <<RULES, env, clock>>

\* POST /vonage/input, registered after app.use(requireApiKey).
VonageInput(i) ==
    /\ pc[i] = "idle"
    /\ \E keyOk \in BOOLEAN, tz \in TimeZones, utter \in Utterances :
          LET a == Args("vonage", keyOk, tz, "", 0, utter) IN
          IF ~keyOk
          THEN Reply(i, a, 401, "Unauthorized")
          ELSE IF ~verifyVonageSignature
          THEN Reply(i, a, 401, "")
          ELSE IF utter = "help"
          THEN Reply(i, a, 200, "Say book to schedule a time.")
          ELSE IF utter = "list"
          THEN LET nowLocal == LocalFields(UtcToZonedTime(clock, tz)) IN
               ComputeAvailability(i,
                   [a EXCEPT !.date = DayString(nowLocal \div MinutesPerDay),
                             !.durationMin = 30])
          ELSE IF utter = "book"
          THEN Reply(i, a, 200, "Okay, say a date")
          ELSE Reply(i, a, 200, "Sorry, I did not catch that.")
    /\ UNCHANGED <<RULES, env, clock>>

\* Resume with one starts array shared by all invocations: what an earlier
\* invocation pushed is still in it.
ResumeSharedStarts(i, busy) ==
    LET c == call[i]
        nowUtc == clock
        s == ScanSlots(c.timeMin, c.timeMax, c.durationMin, nowUtc, busy, c.tz)
        others == { j \in DOMAIN ret \ {i} : ret[j].kind = "returned" }
        shared == IF others = {} THEN <<>> ELSE ret[CHOOSE j \in others : TRUE].starts
        r == [kind |-> "returned", starts |-> shared \o s.starts, error |-> "",
              now |-> nowUtc, iters |-> s.iters]
    IN  /\ ret' = [ret EXCEPT ![i] = r]
        /\ resp' = [resp EXCEPT ![i] = Respond(c.caller, r)]
        /\ busyGot' = [busyGot EXCEPT ![i] = busy]

\* computeAvailability of request i after its await, with busy the list
\* freeBusy returned: the scan runs to its end on the invocation's own starts
\* array with the clock read now, and the caller responds.
Resume(i, busy) ==
    LET c == call[i]
        nowUtc == clock
        s == ScanSlots(c.timeMin, c.timeMax, c.durationMin, nowUtc, busy, c.tz)
        r == [kind |-> "returned", starts |-> s.starts, error |-> "",
              now |-> nowUtc, iters |-> s.iters]
    IN  /\ ret' = [ret EXCEPT ![i] = r]
        /\ resp' = [resp EXCEPT ![i] = Respond(c.caller, r)]
        /\ busyGot' = [busyGot EXCEPT ![i] = busy]

\* calendar.freebusy.query resolves: freeBusy returns the busy list and
\* computeAvailability resumes.
ProviderResponds(i) ==
    /\ pc[i] = "awaiting" /\ call[i].caller # "freebusy"
    /\ \E busy \in BusyLists(call[i].timeMin) : Resume(i, busy)
    /\ pc' = [pc EXCEPT ![i] = "done"]
    /\ UNCHANGED <<RULES, env, clock, call, fetches>>

\* ProviderFails with freeBusy queried a second time after a rejection.
ProviderFailsRetry(i) ==
    /\ pc[i] = "awaiting" /\ call[i].caller # "freebusy"
    /\ fetches[i] < 2
    /\ fetches' = [fetches EXCEPT ![i] = @ + 1]
    /\ UNCHANGED <<RULES, env, clock, pc, call, ret, resp, busyGot>>

\* calendar.freebusy.query rejects: the exception leaves freeBusy and
\* computeAvailability and reaches the caller's catch.
ProviderFails(i) ==
    /\ pc[i] = "awaiting" /\ call[i].caller # "freebusy"
    /\ LET r == [NoReturn EXCEPT !.kind = "threw", !.error = "provider error"] IN
          /\ ret' = [ret EXCEPT ![i] = r]
          /\ resp' = [resp EXCEPT ![i] = Respond(call[i].caller, r)]
    /\ pc' = [pc EXCEPT ![i] = "done"]
    /\ UNCHANGED <<RULES, env, clock, call, fetches, busyGot>>

\* Time passes.
Tick ==
    /\ \E t \in ClockValues : t > clock /\ clock' = t
    /\ UNCHANGED <<RULES, env, pc, call, fetches, ret, resp, busyGot>>

\* The process starts with one of the rule sets and environments; a signature
\* secret only closes the voice endpoints, so it is set with the default rules
\* and a server in UTC only.
Init ==
    /\ RULES \in RuleSets
    /\ env \in [TZ : SysZones, VONAGE_SIGNATURE_SECRET : BOOLEAN]
    /\ env.VONAGE_SIGNATURE_SECRET => (RULES = DefaultRules /\ env.TZ = "UTC")
    /\ clock \in ClockValues
    /\ pc = [i \in Inv |-> "idle"]
    /\ call = [i \in Inv |-> NoCall]
    /\ fetches = [i \in Inv |-> 0]
    /\ ret = [i \in Inv |-> NoReturn]
    /\ resp = [i \in Inv |-> NoResponse]
    /\ busyGot = [i \in Inv |-> <<>>]

Next ==
    \/ \E i \in Inv : GetAvailability(i)
    \/ \E i \in Inv : VonageAnswer(i)
    \/ \E i \in Inv : VonageInput(i)
    \/ \E i \in Inv : GetFreeBusy(i)
    \/ \E i \in Inv : FreeBusyResponds(i)
    \/ \E i \in Inv : FreeBusyFails(i)
    \/ \E i \in Inv : ProviderResponds(i)
    \/ \E i \in Inv : ProviderFails(i)
    \/ Tick

Spec == Init /\ [][Next]_vars

\* ------------------------------------------------- two requests in flight

\* Two GET /availability requests served by the one process.
Calls == { 1, 2 }

\* Their dates and durations.
ConcDates == { "2025-08-11" }

ConcDurations == { "30", "60" }

\* GET /availability with the API key, over the inputs above.
GetAvailabilityConc(i) ==
    /\ pc[i] = "idle"
    /\ \E date \in ConcDates, duration \in ConcDurations :
          ComputeAvailability(i, Args("http", TRUE, TZ_DEFAULT, date, ParseInt(duration), ""))
    /\ UNCHANGED <<RULES, env, clock>>

\* The provider answers request i, whatever the other request is doing.
ProviderRespondsConc(i) ==
    /\ pc[i] = "awaiting"
    /\ \E busy \in ConcBusyLists(call[i].timeMin) : Resume(i, busy)
    /\ pc' = [pc EXCEPT ![i] = "done"]
    /\ UNCHANGED <<RULES, env, clock, call, fetches>>

InitConc ==
    /\ RULES \in RuleSets
    /\ env = [TZ |-> "UTC", VONAGE_SIGNATURE_SECRET |-> FALSE]
    /\ clock \in ClockValues
    /\ pc = [i \in Calls |-> "idle"]
    /\ call = [i \in Calls |-> NoCall]
    /\ fetches = [i \in Calls |-> 0]
    /\ ret = [i \in Calls |-> NoReturn]
    /\ resp = [i \in Calls |-> NoResponse]
    /\ busyGot = [i \in Calls |-> <<>>]

NextConc ==
    \/ \E i \in Calls : GetAvailabilityConc(i)
    \/ \E i \in Calls : ProviderRespondsConc(i)
    \/ \E i \in Calls : ProviderFails(i)
    \/ Tick

SpecConc == InitConc /\ [][NextConc]_vars

\* ------------------------------------------------------------- properties

Range(f) == { f[n] : n \in DOMAIN f }

Max(a, b) == IF a > b THEN a ELSE b
Min(a, b) == IF a < b THEN a ELSE b

\* computeAvailability of request i returned a slot list.
Returned(i) == ret[i].kind = "returned"

\* The grid of request i: window.start + k * slotIntervalMinutes, to past the
\* end of the window.
GridPositions(i) ==
    { call[i].timeMin + k * RULES.SLOT_INTERVAL_MIN :
        k \in 0 .. ((call[i].timeMax - call[i].timeMin) \div RULES.SLOT_INTERVAL_MIN) + 2 }

\* The padded interval of a candidate at c has no open intersection with any
\* interval of busy.
PaddedFree(c, durationMin, busy) ==
    \A n \in 1 .. Len(busy) :
        ~(Max(c - RULES.BUFFER_MIN, busy[n].start)
            < Min(c + durationMin + RULES.BUFFER_MIN, busy[n].end))

\* Instant c, on tz's wall clock, is on a work day within the work hours.
LocalWorkTime(c, tz) ==
    LET w == c + TzOffset(tz) IN
    /\ GetDay(w) \in RULES.WORK_DAYS
    /\ RULES.WORK_START_HOUR <= GetHours(w)
    /\ GetHours(w) < RULES.WORK_END_HOUR

\* Grid position c of request i passes the notice, buffer and work-time checks.
Qualifies(i, c) ==
    /\ c >= ret[i].now + RULES.MIN_NOTICE_MIN
    /\ PaddedFree(c, call[i].durationMin, busyGot[i])
    /\ LocalWorkTime(c, call[i].tz)

\* C1: every returned candidate starts at or after window.start and ends at or
\* before window.end, and the grid position whose occupancy ends exactly at
\* window.end is returned when it passes the three checks.
SlotsWithinWindow ==
    \A i \in Inv : Returned(i) =>
        /\ \A c \in Range(ret[i].starts) :
              c >= call[i].timeMin /\ c + call[i].durationMin <= call[i].timeMax
        /\ LET last == call[i].timeMax - call[i].durationMin IN
              (last \in GridPositions(i) /\ Qualifies(i, last))
                  => last \in Range(ret[i].starts)

\* C1 witness: a returned list holds the candidate that ends exactly at window.end.
SlotsWithinWindowWitness ==
    \E i \in Inv :
        /\ Returned(i) /\ call[i].durationMin > 0
        /\ (call[i].timeMax - call[i].durationMin) \in Range(ret[i].starts)
        /\ call[i].timeMin \in Range(ret[i].starts)

\* C2: no returned candidate's padded interval has an open intersection with a
\* fetched busy interval, whatever the order and overlap of the busy list.
NoBusyOverlap ==
    \A i \in Inv : Returned(i) =>
        \A c \in Range(ret[i].starts) :
            PaddedFree(c, call[i].durationMin, busyGot[i])

\* C2 witness: an unsorted busy list of two overlapping intervals, some grid
\* position suppressed by the second one only, and a non-empty result.
NoBusyOverlapWitness ==
    \E i \in Inv :
        /\ Returned(i) /\ call[i].durationMin > 0
        /\ Len(busyGot[i]) = 2
        /\ busyGot[i][1].start > busyGot[i][2].start
        /\ busyGot[i][1].start < busyGot[i][2].end
        /\ ret[i].starts # <<>>
        /\ \E c \in GridPositions(i) :
              /\ c + call[i].durationMin <= call[i].timeMax
              /\ PaddedFree(c, call[i].durationMin, <<busyGot[i][1]>>)
              /\ ~PaddedFree(c, call[i].durationMin, <<busyGot[i][2]>>)
              /\ c >= ret[i].now + RULES.MIN_NOTICE_MIN

\* C3: for a positive duration, the returned sequence holds exactly the grid
\* positions that end within the window and pass the notice, buffer and
\* work-time checks, each once; a position the notice check skips does not end
\* the scan.
ExactlyQualifyingPositions ==
    \A i \in Inv : (Returned(i) /\ call[i].durationMin > 0) =>
        /\ Range(ret[i].starts) =
              { c \in GridPositions(i) :
                    /\ c + call[i].durationMin <= call[i].timeMax
                    /\ Qualifies(i, c) }
        /\ Cardinality(Range(ret[i].starts)) = Len(ret[i].starts)

\* C3 witness: the first grid positions fail the notice check and later ones
\* are returned, while a busy interval suppresses a position in between.
ExactlyQualifyingPositionsWitness ==
    \E i \in Inv :
        /\ Returned(i) /\ call[i].durationMin > 0
        /\ call[i].timeMin < ret[i].now + RULES.MIN_NOTICE_MIN
        /\ ret[i].starts # <<>>
        /\ \E c \in GridPositions(i) :
              /\ c >= ret[i].now + RULES.MIN_NOTICE_MIN
              /\ c + call[i].durationMin <= call[i].timeMax
              /\ c \notin Range(ret[i].starts)

\* C4: the returned starts are strictly ascending, and each differs from
\* window.start by a whole multiple of slotIntervalMinutes.
AscendingOnGrid ==
    \A i \in Inv : Returned(i) =>
        /\ \A n \in 1 .. Len(ret[i].starts) - 1 :
              ret[i].starts[n] < ret[i].starts[n + 1]
        /\ \A n \in 1 .. Len(ret[i].starts) :
              /\ ret[i].starts[n] >= call[i].timeMin
              /\ (ret[i].starts[n] - call[i].timeMin) % RULES.SLOT_INTERVAL_MIN = 0

\* C4 witness: two consecutive returned starts lie more than one grid step
\* apart (a skipped position between them), and two others exactly one step.
AscendingOnGridWitness ==
    \E i \in Inv :
        /\ Returned(i)
        /\ \E n \in 1 .. Len(ret[i].starts) - 1 :
              ret[i].starts[n + 1] - ret[i].starts[n] > RULES.SLOT_INTERVAL_MIN
        /\ \E n \in 1 .. Len(ret[i].starts) - 1 :
              ret[i].starts[n + 1] - ret[i].starts[n] = RULES.SLOT_INTERVAL_MIN

\* C5: no returned candidate starts before now + minNoticeMinutes; the grid
\* position equal to now + minNoticeMinutes is returned when it fits the window
\* and passes the buffer and work-time checks; and with notice 120, a 30-minute
\* grid, duration 30 and now 130 minutes before the end of an 8-hour window
\* (14:50 against 17:00) the result is empty.
NoticeRespected ==
    \A i \in Inv : Returned(i) =>
        LET edge == ret[i].now + RULES.MIN_NOTICE_MIN IN
        /\ \A c \in Range(ret[i].starts) : c >= edge
        /\ ( /\ edge \in GridPositions(i)
             /\ edge + call[i].durationMin <= call[i].timeMax
             /\ PaddedFree(edge, call[i].durationMin, busyGot[i])
             /\ LocalWorkTime(edge, call[i].tz) )
              => edge \in Range(ret[i].starts)
        /\ ( /\ RULES.MIN_NOTICE_MIN = 120 /\ RULES.SLOT_INTERVAL_MIN = 30
             /\ call[i].durationMin = 30
             /\ call[i].timeMax - call[i].timeMin = 8 * MinutesPerHour
             /\ ret[i].now = call[i].timeMax - 130 )
              => ret[i].starts = <<>>

\* C5 witness: the first returned start is exactly now + minNoticeMinutes.
NoticeRespectedWitness ==
    \E i \in Inv :
        /\ Returned(i) /\ call[i].durationMin > 0
        /\ ret[i].starts # <<>>
        /\ ret[i].starts[1] = ret[i].now + RULES.MIN_NOTICE_MIN

\* The scenario of C5 is reached: now is 14:50 on the work day of a 09:00-17:00
\* window and a 30-minute meeting is asked for.
NoticeScenarioReached ==
    \E i \in Inv :
        /\ Returned(i) /\ call[i].durationMin = 30
        /\ RULES.MIN_NOTICE_MIN = 120 /\ RULES.SLOT_INTERVAL_MIN = 30
        /\ call[i].timeMax - call[i].timeMin = 8 * MinutesPerHour
        /\ ret[i].now = call[i].timeMax - 130

\* Request i got as far as calling computeAvailability.
Invoked(i) ==
    /\ pc[i] # "idle" /\ call[i].keyOk
    /\ \/ call[i].caller = "http" /\ call[i].date # ""
       \/ call[i].caller = "vonage" /\ verifyVonageSignature /\ call[i].utter = "list"

\* The date strings that name a real calendar date.
RealDates == { DayString(d) : d \in KnownDays }

\* C6: a call with durationMin <= 0 fails and hands no slot sequence to its
\* caller.
InvalidDurationRejected ==
    \A i \in Inv :
        (Invoked(i) /\ pc[i] = "done" /\ call[i].durationMin <= 0) =>
            /\ ret[i].kind = "threw"
            /\ resp[i].body # "slots"

\* C7: a date that is no real calendar date makes computeAvailability throw
\* before the provider is called and before any grid position is examined, and
\* GET /availability answers 400 with an error and no slots; a missing date is
\* answered 400 without computeAvailability being called.
InvalidDateRejected ==
    \A i \in Inv :
        /\ (Invoked(i) /\ call[i].date \notin RealDates) =>
              /\ pc[i] = "done"
              /\ ret[i].kind = "threw"
              /\ ret[i].starts = <<>> /\ ret[i].iters = 0
              /\ fetches[i] = 0
              /\ resp[i].status = 400 /\ resp[i].body # "slots"
              /\ resp[i].slots = <<>>
        /\ (pc[i] # "idle" /\ call[i].caller = "http" /\ call[i].keyOk
                /\ call[i].date = "") =>
              /\ ~Invoked(i)
              /\ pc[i] = "done"
              /\ ret[i].kind = "none" /\ fetches[i] = 0
              /\ resp[i].status = 400 /\ resp[i].body # "slots"
              /\ resp[i].slots = <<>>

\* C7 witness: GET /availability with a date that does not parse was answered.
InvalidDateRejectedWitness ==
    \E i \in Inv :
        /\ Invoked(i) /\ call[i].date = "not-a-date"
        /\ resp[i].status = 400

\* The other case of C7 is reached: GET /availability without a date.
MissingDateReached ==
    \E i \in Inv :
        /\ pc[i] = "done" /\ call[i].caller = "http" /\ call[i].keyOk
        /\ call[i].date = "" /\ resp[i].status = 400

\* The provider call of request i was rejected.
ProviderFailed(i) == ret[i].kind = "threw" /\ fetches[i] > 0

\* C8: when the provider call fails, computeAvailability throws with no grid
\* position examined, no clock read and no candidates, and the caller's answer
\* differs from its answer to a successful empty slot list.
ProviderFailureDistinct ==
    \A i \in Inv : ProviderFailed(i) =>
        /\ ret[i].starts = <<>> /\ ret[i].iters = 0 /\ ret[i].now = NaN
        /\ resp[i].slots = <<>>
        /\ resp[i] # Respond(call[i].caller, [NoReturn EXCEPT !.kind = "returned"])

\* C8 witness: the voice menu answered a 'list' request whose provider call
\* failed.
ProviderFailureDistinctWitness ==
    \E i \in Inv :
        /\ ProviderFailed(i) /\ pc[i] = "done"
        /\ call[i].caller = "vonage"

\* The other caller of C8 is reached: GET /availability with a failed provider call.
ProviderFailureHttpReached ==
    \E i \in Inv :
        /\ ProviderFailed(i) /\ pc[i] = "done"
        /\ call[i].caller = "http"

OneFetchFailureReached ==
    \E i \in Inv : ProviderFailed(i) /\ pc[i] = "done" /\ fetches[i] = 1

\* C10: for a requested date whose weekday is not in workDays the returned
\* sequence is empty.
WeekendDateEmpty ==
    \A i \in Inv :
        ( /\ Returned(i) /\ call[i].date \in RealDates
          /\ GetDay(JsDateParse(call[i].date)) \notin RULES.WORK_DAYS )
            => ret[i].starts = <<>>

\* C10 holds when the server process runs in UTC.
WeekendDateEmptyInUtc ==
    env.TZ = "UTC" => WeekendDateEmpty

\* C11: every returned start, read on the wall clock of the request's zone,
\* falls on a work day at an hour in [workStartHour, workEndHour).
StartsInLocalWorkTime ==
    \A i \in Inv : Returned(i) =>
        \A c \in Range(ret[i].starts) : LocalWorkTime(c, call[i].tz)

\* C11 witness: a non-empty result for a request in a zone off UTC.
StartsInLocalWorkTimeWitness ==
    \E i \in Inv :
        /\ Returned(i) /\ ret[i].starts # <<>>
        /\ TzOffset(call[i].tz) # 0

\* The instant at which tz's wall clock shows h:m on calendar date `date`.
LocalInstant(date, h, m, tz) ==
    JsDateParse(date) + h * MinutesPerHour + m - TzOffset(tz)

\* What a calendar holding the single event ev answers to a query for
\* [timeMin, timeMax): the event when it intersects the queried window.
SingleEventAnswer(ev, timeMin, timeMax) ==
    IF ev.start < timeMax /\ ev.end > timeMin THEN <<ev>> ELSE <<>>

\* Request i is the scenario of C12: default rules, a 30-minute meeting on a
\* work day, the clock read at 07:00 local on that day, and a calendar whose
\* only event is 10:00-10:30 local on that day.
BufferNoticeScenario(i) ==
    /\ Returned(i) /\ RULES = DefaultRules
    /\ call[i].durationMin = 30
    /\ call[i].date \in RealDates
    /\ GetDay(JsDateParse(call[i].date)) \in RULES.WORK_DAYS
    /\ ret[i].now = LocalInstant(call[i].date, 7, 0, call[i].tz)
    /\ busyGot[i] = SingleEventAnswer(
            [start |-> LocalInstant(call[i].date, 10, 0, call[i].tz),
             end   |-> LocalInstant(call[i].date, 10, 30, call[i].tz)],
            call[i].timeMin, call[i].timeMax)

\* C12: in that scenario no start lies in [09:40, 10:40) local or before 09:00
\* local, and the 09:00 position, which equals now + notice, is returned.
BufferNoticeScenarioResult ==
    \A i \in Inv : BufferNoticeScenario(i) =>
        LET nine == LocalInstant(call[i].date, 9, 0, call[i].tz) IN
        /\ \A c \in Range(ret[i].starts) :
              /\ c >= nine
              /\ ~(c >= nine + 40 /\ c < nine + 100)
        /\ nine \in Range(ret[i].starts)

\* C12 holds when the server process runs in UTC, where the scenario is reached
\* with the event fetched.
BufferNoticeScenarioResultInUtc ==
    env.TZ = "UTC" => BufferNoticeScenarioResult

BufferNoticeScenarioInUtcReached ==
    \E i \in Inv :
        /\ env.TZ = "UTC" /\ BufferNoticeScenario(i)
        /\ Len(busyGot[i]) = 1

\* Grid position c of request i fits the window and passes the notice and
\* work-time checks, so that only the busy list decides whether it is returned.
BusyDecides(i, c) ==
    /\ c \in GridPositions(i)
    /\ c + call[i].durationMin <= call[i].timeMax
    /\ c >= ret[i].now + RULES.MIN_NOTICE_MIN
    /\ LocalWorkTime(c, call[i].tz)

\* C13: for a positive duration, a position whose padded interval every busy
\* interval at most touches (busy.end <= start - buffer or busy.start >= start +
\* duration + buffer) is returned, and a position whose padded interval some
\* busy interval reaches into is not; with buffer 0 the padded interval is the
\* candidate's own.
BufferBoundary ==
    \A i \in Inv : (Returned(i) /\ call[i].durationMin > 0) =>
        \A c \in { p \in GridPositions(i) : BusyDecides(i, p) } :
            LET lo == c - RULES.BUFFER_MIN
                hi == c + call[i].durationMin + RULES.BUFFER_MIN
            IN  /\ (\A n \in 1 .. Len(busyGot[i]) :
                        busyGot[i][n].end <= lo \/ busyGot[i][n].start >= hi)
                      => c \in Range(ret[i].starts)
                /\ (\E n \in 1 .. Len(busyGot[i]) :
                        busyGot[i][n].end > lo /\ busyGot[i][n].start < hi)
                      => c \notin Range(ret[i].starts)

\* C13 witness: with the 10-minute buffer, one returned start is touched from
\* the left (busy.end = start - buffer) by one busy interval and from the right
\* (busy.start = start + duration + buffer) by another, and another position is
\* suppressed by a busy interval reaching one minute into its padding.
BufferBoundaryWitness ==
    \E i \in Inv :
        /\ Returned(i) /\ call[i].durationMin > 0 /\ RULES.BUFFER_MIN > 0
        /\ \E c \in Range(ret[i].starts) :
              /\ \E n \in 1 .. Len(busyGot[i]) :
                    busyGot[i][n].end = c - RULES.BUFFER_MIN
              /\ \E n \in 1 .. Len(busyGot[i]) :
                    busyGot[i][n].start = c + call[i].durationMin + RULES.BUFFER_MIN

\* The other cases of C13 are reached: a position suppressed by a busy interval
\* that reaches one minute into its padding, and with buffer 0 a returned
\* start whose own edge a busy interval touches.
BufferOneMinuteReached ==
    \E i \in Inv :
        /\ Returned(i) /\ call[i].durationMin > 0 /\ Len(busyGot[i]) = 1
        /\ \E c \in { p \in GridPositions(i) : BusyDecides(i, p) } :
              /\ busyGot[i][1].end = c - RULES.BUFFER_MIN + 1
              /\ c \notin Range(ret[i].starts)

BufferZeroTouchReached ==
    \E i \in Inv :
        /\ Returned(i) /\ call[i].durationMin > 0 /\ RULES.BUFFER_MIN = 0
        /\ \E c \in Range(ret[i].starts) :
              \E n \in 1 .. Len(busyGot[i]) :
                  busyGot[i][n].start = c + call[i].durationMin

\* Request i is a GET /freebusy for which normalizeRange returned a window.
RangeReturned(i) ==
    /\ pc[i] # "idle" /\ call[i].caller = "freebusy" /\ call[i].keyOk
    /\ ~normalizeRange(call[i].start, call[i].end, call[i].tz).threw

\* C14: every window normalizeRange returns has timeMin strictly before
\* timeMax, for a pair of dates as for a pair of absolute timestamps.
NormalizedRangeOrdered ==
    \A i \in Inv : RangeReturned(i) => call[i].timeMin < call[i].timeMax

\* The part of C14 the code keeps: a missing input, or one that is neither a
\* date nor a timestamp, is answered with 400 and no provider call, and a
\* window that is returned is the one sent to the provider.
UnparsedRangeRejected ==
    \A i \in Inv :
        (pc[i] # "idle" /\ call[i].caller = "freebusy" /\ call[i].keyOk) =>
            /\ (call[i].start \in {"", "tomorrow"} \/ call[i].end \in {"", "tomorrow"})
                  => /\ pc[i] = "done" /\ resp[i].status = 400 /\ fetches[i] = 0
            /\ RangeReturned(i) => fetches[i] = 1 /\ call[i].timeMin # NaN

\* Both failing cases of C14 are reached: timestamps with start after end, and
\* a pair of dates with the end date before the start date.
ReversedTimestampsReached ==
    \E i \in Inv :
        /\ RangeReturned(i) /\ pc[i] = "done" /\ resp[i].status = 200
        /\ ~isDateOnly(call[i].start) /\ ~isDateOnly(call[i].end)
        /\ call[i].timeMin >= call[i].timeMax

ReversedDatesReached ==
    \E i \in Inv :
        /\ RangeReturned(i) /\ pc[i] = "done" /\ resp[i].status = 200
        /\ isDateOnly(call[i].start) /\ isDateOnly(call[i].end)
        /\ call[i].timeMin >= call[i].timeMax

\* Request i reached the provider call of computeAvailability.
WindowBuilt(i) ==
    /\ Invoked(i) /\ call[i].date \in RealDates
    /\ pc[i] \in {"awaiting", "done"}

\* C15: the window computeAvailability queries and scans is workStartHour:00
\* to workEndHour:00 of the requested date on the wall clock of the request's
\* zone, whatever the zone of the server process.
WindowOnRequestedDay ==
    \A i \in Inv : WindowBuilt(i) =>
        /\ call[i].timeMin = LocalInstant(call[i].date, RULES.WORK_START_HOUR, 0, call[i].tz)
        /\ call[i].timeMax = LocalInstant(call[i].date, RULES.WORK_END_HOUR, 0, call[i].tz)

\* With the server process in UTC the window of C15 is the one built.
WindowOnRequestedDayInUtc ==
    env.TZ = "UTC" => WindowOnRequestedDay

\* With the server process west of UTC the window is the requested one moved
\* back by a whole day.
WindowOnDayBeforeWest ==
    \A i \in Inv : (WindowBuilt(i) /\ TzOffset(env.TZ) < 0) =>
        /\ call[i].timeMin =
              LocalInstant(call[i].date, RULES.WORK_START_HOUR, 0, call[i].tz) - MinutesPerDay
        /\ call[i].timeMax =
              LocalInstant(call[i].date, RULES.WORK_END_HOUR, 0, call[i].tz) - MinutesPerDay

\* The failing case of C15 is reached: server process in America/Chicago, a
\* request for a date in that zone, answered with slots.
WindowOnDayBeforeReached ==
    \E i \in Inv :
        /\ WindowBuilt(i) /\ Returned(i) /\ env.TZ = "America/Chicago"
        /\ call[i].tz = "America/Chicago"
        /\ call[i].timeMax < LocalInstant(call[i].date, 0, 0, call[i].tz)

\* The inputs of the invocation of request i: its arguments, the clock value
\* it read and the provider's answer to it.
OwnInputs(i) ==
    <<call[i].date, call[i].durationMin, call[i].tz, ret[i].now, busyGot[i]>>

BothAwaitingReached == pc[1] = "awaiting" /\ pc[2] = "awaiting"

DifferentInputsReached ==
    /\ Returned(1) /\ Returned(2)
    /\ call[1].durationMin # call[2].durationMin
    /\ busyGot[1] # busyGot[2]
    /\ ret[1].now > ret[2].now
    /\ ret[1].starts # ret[2].starts /\ ret[1].starts # <<>> /\ ret[2].starts # <<>>

\* ceil(a / b) for a >= 0 and b > 0.
CeilDiv(a, b) == (a + b - 1) \div b

\* C17: the scan of a returned invocation ran at most
\* ceil((timeMax - timeMin) / SLOT_INTERVAL_MIN) iterations, whatever the
\* duration, the iterations skipped by the notice check included.
ScanBounded ==
    \A i \in Inv : Returned(i) =>
        ret[i].iters <= CeilDiv(call[i].timeMax - call[i].timeMin,
                                RULES.SLOT_INTERVAL_MIN)

\* C17 witness: with a slot interval that does not divide the window, a scan
\* that skipped positions for notice and returned others ran exactly the bound.
ScanBoundedWitness ==
    \E i \in Inv :
        /\ Returned(i)
        /\ (call[i].timeMax - call[i].timeMin) % RULES.SLOT_INTERVAL_MIN # 0
        /\ ret[i].iters = CeilDiv(call[i].timeMax - call[i].timeMin,
                                  RULES.SLOT_INTERVAL_MIN)
        /\ TooSoon(ret[i].now, call[i].timeMin)
        /\ ret[i].starts # <<>>

\* The scan that leaves the loop through its break is reached too: the last
\* grid position, where an hour no longer fits, is the last iteration counted.
ScanBreakReached ==
    \E i \in Inv :
        /\ Returned(i) /\ call[i].durationMin > RULES.SLOT_INTERVAL_MIN
        /\ ret[i].iters = CeilDiv(call[i].timeMax - call[i].timeMin,
                                  RULES.SLOT_INTERVAL_MIN)

\* Request i went to one of the two voice endpoints and has been answered.
VoiceAnswered(i) ==
    pc[i] = "done" /\ call[i].caller \in {"vonage", "vonage-answer"}

\* C18: with no signature secret configured, a voice request that carries no
\* API key reaches its handler and is answered with an NCCO, not with 401.
VoiceEndpointsPublic ==
    \A i \in Inv :
        (VoiceAnswered(i) /\ ~call[i].keyOk /\ verifyVonageSignature) =>
            resp[i].status = 200

\* What the code does instead: every voice request without the API key is
\* answered by the middleware, and with the key it gets its NCCO.
VoiceBehindApiKey ==
    \A i \in Inv : VoiceAnswered(i) =>
        /\ ~call[i].keyOk =>
              resp[i].status = 401 /\ resp[i].body = "Unauthorized" /\ fetches[i] = 0
        /\ (call[i].keyOk /\ verifyVonageSignature) => resp[i].status = 200

\* The failing case of C18 is reached on both endpoints.
VoiceAnswerRefusedReached ==
    \E i \in Inv :
        /\ VoiceAnswered(i) /\ call[i].caller = "vonage-answer"
        /\ ~call[i].keyOk /\ verifyVonageSignature /\ resp[i].status = 401

VoiceInputRefusedReached ==
    \E i \in Inv :
        /\ VoiceAnswered(i) /\ call[i].caller = "vonage"
        /\ ~call[i].keyOk /\ verifyVonageSignature /\ resp[i].status = 401

\* The starts request i would have been given had its clock read been t.
StartsAt(i, t) ==
    Range(ScanSlots(call[i].timeMin, call[i].timeMax, call[i].durationMin, t,
                    busyGot[i], call[i].tz).starts)

\* C19: no clock value is held while the invocation waits for the provider;
\* the value read is the clock at the step where the provider's answer arrives
\* and the scan runs with it for every position; and for the same window,
\* duration and busy list a later clock value gives a subset of the starts and
\* an earlier one a superset.
ClockReadOnceAfterAnswer ==
    /\ [](\A i \in Inv :
            /\ pc[i] = "awaiting" => ret[i].now = NaN
            /\ Returned(i) =>
                  \A t \in ClockValues :
                      CASE t > ret[i].now -> StartsAt(i, t) \subseteq Range(ret[i].starts)
                        [] t < ret[i].now -> Range(ret[i].starts) \subseteq StartsAt(i, t)
                        [] OTHER -> Range(ret[i].starts) = StartsAt(i, t))
    /\ [][\A i \in Inv :
            (pc[i] = "awaiting" /\ ret'[i].kind = "returned")
                => ret'[i].now = clock /\ clock' = clock]_vars

\* C19 witness: a 'list' request to the voice menu was answered on a later day
\* than the day it asked for, the day of its arrival, so the clock moved while
\* it waited; with the clock of its arrival it would have been given starts,
\* with the clock it read it is given none.
ClockReadOnceAfterAnswerWitness ==
    \E i \in Inv :
        /\ Returned(i) /\ call[i].caller = "vonage"
        /\ call[i].date # DayString(LocalFields(UtcToZonedTime(ret[i].now, call[i].tz))
                                        \div MinutesPerDay)
        /\ ret[i].starts = <<>>
        /\ \E t \in ClockValues : t < ret[i].now /\ StartsAt(i, t) # {}

\* A later clock value that removes some of the starts and leaves others.
LaterClockRemovesSomeReached ==
    \E i \in Inv :
        /\ Returned(i) /\ ret[i].starts # <<>>
        /\ \E t \in ClockValues :
              /\ t < ret[i].now
              /\ Range(ret[i].starts) \subseteq StartsAt(i, t)
              /\ StartsAt(i, t) # Range(ret[i].starts)

====
